---- MODULE Spec2Model ----
(***************************************************************************)
(* Model of xbot::positioning::PositionMeasurementModel                    *)
(* (src/src/PositionMeasurementModel.hpp).                                 *)
(*                                                                         *)
(* Numbers.  Lengths are fixed-point integers in units of 0.01 (so the     *)
(* antenna offsets -0.01 and 0.03 are -1 and 3).  Headings are integer     *)
(* numbers of quarter turns (theta = q * pi/2), where std::cos and         *)
(* std::sin take the values -1, 0, 1; rounding of double arithmetic is not *)
(* modelled ("to floating-point tolerance").  In H the heading column is   *)
(* in units of 0.01 per radian, the position columns are dimensionless.    *)
(***************************************************************************)
EXTENDS Integers, Sequences, FiniteSets, TLC

\* ---- bounds of the explored inputs -------------------------------------
MaxCoord == 1
MaxTurns == 3
MaxWrap == 2
MaxShift == 2

\* ---- the state vector handed to the model --------------------------------
\* State<T>: only x_pos(), y_pos() and theta() are read by this model.
State == (0..MaxCoord) \X (0..MaxCoord) \X ((0 - MaxTurns)..MaxTurns)

x_pos(s) == s[1]
y_pos(s) == s[2]
theta(s) == s[3]

NoState == <<>>
NoValue == <<>>

\* ---- matrices ------------------------------------------------------------
\* Eigen's setIdentity() on an r x c matrix: 1 on the main diagonal, 0 elsewhere.
setIdentity(r, c) == [i \in 1..r |-> [j \in 1..c |-> IF i = j THEN 1 ELSE 0]]

setZero(r, c) == [i \in 1..r |-> [j \in 1..c |-> 0]]

\* ---- std::cos / std::sin at multiples of pi/2 ------------------------------
cos(q) == CASE q % 4 = 0 -> 1
            [] q % 4 = 1 -> 0
            [] q % 4 = 2 -> 0 - 1
            [] q % 4 = 3 -> 0

sin(q) == CASE q % 4 = 0 -> 0
            [] q % 4 = 1 -> 1
            [] q % 4 = 2 -> 0
            [] q % 4 = 3 -> 0 - 1

\* ---- calibration: default member initializers -----------------------------
AntennaDistanceX_YFClassic == 30
antenna_distance_x_default == -1

antenna_distance_y_default == 3

VARIABLES
    x_in,                \* the state most recently supplied to a call
    x,                   \* that argument object as it is after the call
    H,                   \* measurement Jacobian (2 x 3)
    V,                   \* measurement-noise Jacobian (2 x 2)
    antenna_distance_x,
    antenna_distance_y,
    ret,                 \* value returned by the last call (NoValue for void)
    lastOp,              \* "constructor", "h" or "updateJacobians"
    jacobiansUpdated,    \* history: updateJacobians has run at least once
    snap                 \* history: one earlier h call (argument, result)

vars == <<x_in, x, H, V, antenna_distance_x, antenna_distance_y, ret, lastOp,
          jacobiansUpdated, snap>>

NoSnap == [arg |-> NoState, ret |-> NoValue, between |-> FALSE]

\* ---- constructor -----------------------------------------------------------
Constructor_V_setZero == setZero(2, 2)
Constructor_V == setIdentity(2, 2)

\* H is not written by this constructor; what it holds before the first
\* updateJacobians is whatever the base class left there.
H_beforeFirstUpdate ==
    { setIdentity(2, 3), setZero(2, 3), <<<<7, 7, 7>>, <<7, 7, 7>>>> }

Init ==
    /\ V = Constructor_V
    /\ H \in H_beforeFirstUpdate
    /\ antenna_distance_x = antenna_distance_x_default
    /\ antenna_distance_y = antenna_distance_y_default
    /\ x_in = NoState
    /\ x = NoState
    /\ ret = NoValue
    /\ lastOp = "constructor"
    /\ jacobiansUpdated = FALSE
    /\ snap = NoSnap

\* ---- h ---------------------------------------------------------------------
h_x_pos_signSlip(s, dx, dy) == x_pos(s) + cos(theta(s)) * dx + sin(theta(s)) * dy
h_x_pos_smallAngle(s, dx, dy) == x_pos(s) + dx - theta(s) * dy
h_x_pos(s, dx, dy) == x_pos(s) + cos(theta(s)) * dx - sin(theta(s)) * dy

h_y_pos(s, dx, dy) == y_pos(s) + sin(theta(s)) * dx + cos(theta(s)) * dy

h_measurement(s, dx, dy) == <<h_x_pos(s, dx, dy), h_y_pos(s, dx, dy)>>

h_clobbersH(s) ==
    /\ ret' = h_measurement(s, antenna_distance_x, antenna_distance_y)
    /\ x_in' = s
    /\ x' = s
    /\ lastOp' = "h"
    /\ H' = setZero(2, 3)
    /\ snap' \in { snap, [arg |-> s, ret |-> ret', between |-> FALSE] }
    /\ UNCHANGED <<V, antenna_distance_x, antenna_distance_y, jacobiansUpdated>>
h(s) ==
    /\ ret' = h_measurement(s, antenna_distance_x, antenna_distance_y)
    /\ x_in' = s
    /\ x' = s
    /\ lastOp' = "h"
    /\ snap' \in { snap, [arg |-> s, ret |-> ret', between |-> FALSE] }
    /\ UNCHANGED <<H, V, antenna_distance_x, antenna_distance_y, jacobiansUpdated>>

\* ---- updateJacobians -------------------------------------------------------
updateJacobians_H_setZero(s) == setZero(2, 3)
updateJacobians_H_analytic(s) ==
    << <<1, 0, 0 - sin(theta(s)) * antenna_distance_x - cos(theta(s)) * antenna_distance_y>>,
       <<0, 1, cos(theta(s)) * antenna_distance_x - sin(theta(s)) * antenna_distance_y>> >>
updateJacobians_H(s) == setIdentity(2, 3)

updateJacobians_retunesOffset(s) ==
    /\ H' = updateJacobians_H(s)
    /\ x_in' = s
    /\ x' = s
    /\ ret' = NoValue
    /\ lastOp' = "updateJacobians"
    /\ jacobiansUpdated' = TRUE
    /\ snap' = IF snap = NoSnap THEN snap ELSE [snap EXCEPT !.between = TRUE]
    /\ antenna_distance_x' = AntennaDistanceX_YFClassic
    /\ UNCHANGED <<V, antenna_distance_y>>
updateJacobians(s) ==
    /\ H' = updateJacobians_H(s)
    /\ x_in' = s
    /\ x' = s
    /\ ret' = NoValue
    /\ lastOp' = "updateJacobians"
    /\ jacobiansUpdated' = TRUE
    /\ snap' = IF snap = NoSnap THEN snap ELSE [snap EXCEPT !.between = TRUE]
    /\ UNCHANGED <<V, antenna_distance_x, antenna_distance_y>>

Call_h == \E s \in State : h(s)

Call_updateJacobians == \E s \in State : updateJacobians(s)

Next == Call_h \/ Call_updateJacobians

Spec == Init /\ [][Next]_vars

\* ---- properties --------------------------------------------------------------

\* The lever arm (dx, dy) rotated by q quarter turns, written out per quadrant.
RotatedOffset(q, dx, dy) ==
    CASE q % 4 = 0 -> <<dx, dy>>
      [] q % 4 = 1 -> <<0 - dy, dx>>
      [] q % 4 = 2 -> <<0 - dx, 0 - dy>>
      [] q % 4 = 3 -> <<dy, 0 - dx>>

\* C1: for every state (x, y, theta) h returns the robot position plus the
\* antenna lever arm rotated by the heading:
\* z_x = x + cos(theta) dx - sin(theta) dy, z_y = y + sin(theta) dx + cos(theta) dy.
C1_hMatchesFormula ==
    lastOp = "h" =>
        ret = << x_pos(x_in) + RotatedOffset(theta(x_in), antenna_distance_x, antenna_distance_y)[1],
                 y_pos(x_in) + RotatedOffset(theta(x_in), antenna_distance_x, antenna_distance_y)[2] >>

C1_Witness ==
    /\ lastOp = "h"
    /\ x_in = <<1, 0, 3>>
    /\ ret = <<4, 1>>

\* C2: after updateJacobians(x) the stored H is the full analytic Jacobian of h
\* at x: unit partials for x and y and the heading column
\* (-sin(theta) dx - cos(theta) dy, cos(theta) dx - sin(theta) dy).
C2_HIsAnalyticJacobian ==
    lastOp = "updateJacobians" => H = updateJacobians_H_analytic(x_in)

\* C3: the measurement-noise Jacobian V is the identity in every state from
\* the end of construction onward.
C3_VIsIdentity == V = <<<<1, 0>>, <<0, 1>>>>

C3_Witness ==
    /\ jacobiansUpdated
    /\ snap.between
    /\ lastOp = "h"
    /\ V = <<<<1, 0>>, <<0, 1>>>>

\* C5: with the built-in offsets, h at x = 0, y = 0, theta = pi/2 (one quarter
\* turn) returns (-0.03, -0.01).
C5_Scenario ==
    (lastOp = "h" /\ x_in = <<0, 0, 1>>) => ret = <<0 - 3, 0 - 1>>

C5_Witness ==
    /\ lastOp = "h"
    /\ x_in = <<0, 0, 1>>
    /\ ret = <<0 - 3, 0 - 1>>

\* C6: in every state reachable by h and updateJacobians calls both antenna
\* offsets equal the values they had at the end of construction.
C6_OffsetsFixed ==
    /\ antenna_distance_x = antenna_distance_x_default
    /\ antenna_distance_y = antenna_distance_y_default

C6_Witness ==
    /\ jacobiansUpdated
    /\ lastOp = "h"
    /\ theta(x_in) = 2
    /\ antenna_distance_x = 0 - 1
    /\ antenna_distance_y = 3

\* C7: h is pure: a call of h leaves H, V, the antenna offsets and its argument
\* unchanged, and a call of h with the same state as an earlier call returns
\* the same measurement whatever calls happened in between.
C7_hPure ==
    /\ [](lastOp = "h" => (x = x_in /\ (snap.arg = x_in => ret = snap.ret)))
    /\ [][lastOp' = "h" =>
            /\ H' = H
            /\ V' = V
            /\ antenna_distance_x' = antenna_distance_x
            /\ antenna_distance_y' = antenna_distance_y]_vars

C7_Witness ==
    /\ lastOp = "h"
    /\ snap.between
    /\ snap.arg = x_in
    /\ x = x_in
    /\ ret = snap.ret

C10_PeriodicAndTranslation ==
    lastOp = "h" =>
        /\ \A k \in (0 - MaxWrap)..MaxWrap :
              h_measurement(<<x_pos(x_in), y_pos(x_in), theta(x_in) + 4 * k>>,
                            antenna_distance_x, antenna_distance_y) = ret
        /\ \A a, b \in (0 - MaxShift)..MaxShift :
              h_measurement(<<x_pos(x_in) + a, y_pos(x_in) + b, theta(x_in)>>,
                            antenna_distance_x, antenna_distance_y)
                  = <<ret[1] + a, ret[2] + b>>
        /\ (/\ snap # NoSnap
            /\ x_pos(snap.arg) = x_pos(x_in)
            /\ y_pos(snap.arg) = y_pos(x_in)
            /\ (theta(snap.arg) - theta(x_in)) % 4 = 0) => ret = snap.ret

C10_Witness ==
    /\ lastOp = "h"
    /\ snap # NoSnap
    /\ x_pos(snap.arg) = x_pos(x_in)
    /\ y_pos(snap.arg) = y_pos(x_in)
    /\ theta(snap.arg) = theta(x_in) + 4
    /\ ret = snap.ret

====
